---------------------------- MODULE Spec2Model ----------------------------
(* groq_vis.py: the Streamlit script that asks a language model for pandas  *)
(* code, filters and rewrites the returned text, and executes it against    *)
(* the table kept in st.session_state.                                      *)
(*                                                                          *)
(* Text is a sequence of one-character strings, so that the regular         *)
(* expressions of the script are modelled character by character.           *)
EXTENDS Integers, Sequences, FiniteSets, TLC

VARIABLES
    pc,             \* position of the script run: the statement to run next
    session_df,     \* st.session_state.df: an object id, 0 when the key is absent
    heap,           \* object id -> table (NoTable when the id is free)
    df,             \* the script's local name df (an object id, 0 when unbound)
    raw_code,       \* raw_code
    python_lines,   \* python_lines
    clean_code,     \* clean_code
    filtered,       \* history: clean_code as it entered the auto-fixes
    displayed,      \* text handed to st.code at line 137
    executed,       \* text handed to exec at line 141
    prog,           \* history: the statements the executed text ran
    exc,            \* the exception exec raised (NoExc when none)
    user_friendly,  \* user_friendly
    shown,          \* UI elements written in this run, in order
    steps,          \* history: positions passed in this run, in order
    before,         \* history: the session table when exec was entered
    last_left,      \* history: the session table as the last load or Apply left it
    loaded          \* history: the object the upload created

vars == <<pc, session_df, heap, df, raw_code, python_lines, clean_code, filtered,
          displayed, executed, prog, exc, user_friendly, shown, steps, before,
          last_left, loaded>>

---------------------------------------------------------------------------
(* Bounds of the model.                                                     *)

\* Fragments concatenated to form one model output.
MaxFrags == 4

\* Statements one generated program runs.
MaxStmts == 2

---------------------------------------------------------------------------
(* Characters and character classes.                                        *)

Lower == {"a","b","c","d","e","f","g","h","i","j","k","l","m",
          "n","o","p","q","r","s","t","u","v","w","x","y","z"}

Upper == {"A","B","C","D","E","F","G","H","I","J","K","L","M",
          "N","O","P","Q","R","S","T","U","V","W","X","Y","Z"}

DigitChars == <<"0","1","2","3","4","5","6","7","8","9">>

Digits == {DigitChars[i] : i \in 1..10}

\* \w of the re module, on the characters of the model
WordChars == Lower \cup Upper \cup Digits \cup {"_"}

\* \s of the re module and the characters str.strip() removes
Space == {" ", "\t", "\n", "\r"}

\* the backquote, which a string of this language cannot hold
Backtick == "backquote"

\* [A-Za-z_]
IdentStart == Lower \cup Upper \cup {"_"}

\* [A-Za-z0-9_\[\]'\"]
TokenChars == WordChars \cup {"[", "]", "'", "\""}

---------------------------------------------------------------------------
(* Text primitives.                                                         *)

\* text[p:].startswith(lit), p counted from 1
StartsAt(t, p, lit) ==
    /\ p >= 1
    /\ p + Len(lit) - 1 <= Len(t)
    /\ SubSeq(t, p, p + Len(lit) - 1) = lit

\* the first position q >= p whose character is not in S (Len(t)+1 when none):
\* where a greedy run of S started at p ends
SkipIn(t, p, S) ==
    IF \E q \in p..Len(t) : t[q] \notin S
    THEN CHOOSE q \in p..Len(t) :
            t[q] \notin S /\ \A u \in p..(q - 1) : t[u] \in S
    ELSE IF p > Len(t) THEN p ELSE Len(t) + 1

\* the first position q >= p whose character is in S (Len(t)+1 when none)
SkipNotIn(t, p, S) ==
    IF \E q \in p..Len(t) : t[q] \in S
    THEN CHOOSE q \in p..Len(t) :
            t[q] \in S /\ \A u \in p..(q - 1) : t[u] \notin S
    ELSE IF p > Len(t) THEN p ELSE Len(t) + 1

\* the last position q <= p whose character is not in S (0 when none)
SkipBackIn(t, p, S) ==
    IF \E q \in 1..p : t[q] \notin S
    THEN CHOOSE q \in 1..p :
            t[q] \notin S /\ \A u \in (q + 1)..p : t[u] \in S
    ELSE 0

\* str.strip()
Strip(t) ==
    LET a == SkipIn(t, 1, Space)
        b == SkipBackIn(t, Len(t), Space)
    IN  IF a > b THEN <<>> ELSE SubSeq(t, a, b)

\* the first position q >= p where lit starts (0 when none)
Find(t, p, lit) ==
    IF \E q \in p..Len(t) : StartsAt(t, q, lit)
    THEN CHOOSE q \in p..Len(t) :
            StartsAt(t, q, lit) /\ \A u \in p..(q - 1) : ~StartsAt(t, u, lit)
    ELSE 0

RECURSIVE ReplaceFrom(_, _, _, _)
ReplaceFrom(t, p, old, new) ==
    LET q == Find(t, p, old)
    IN  IF q = 0 THEN SubSeq(t, p, Len(t))
        ELSE SubSeq(t, p, q - 1) \o new \o ReplaceFrom(t, q + Len(old), old, new)

\* str.replace(old, new) for a non-empty old: leftmost, non-overlapping
Replace(t, old, new) == ReplaceFrom(t, 1, old, new)

RECURSIVE SplitFrom(_, _)
SplitFrom(t, p) ==
    IF p > Len(t) THEN <<>>
    ELSE LET q == SkipNotIn(t, p, {"\n"})
         IN  <<SubSeq(t, p, q - 1)>> \o SplitFrom(t, q + 1)

\* str.splitlines(): the line boundary of the model's texts is "\n"; a trailing
\* boundary opens no further line and the empty text has no line
SplitLines(t) == SplitFrom(t, 1)

RECURSIVE JoinLines(_)
\* "\n".join(lines)
JoinLines(lines) ==
    IF lines = <<>> THEN <<>>
    ELSE IF Len(lines) = 1 THEN lines[1]
    ELSE lines[1] \o <<"\n">> \o JoinLines(Tail(lines))

RECURSIVE ToNat(_)
\* int(digits)
ToNat(ds) ==
    IF ds = <<>> THEN 0
    ELSE 10 * ToNat(SubSeq(ds, 1, Len(ds) - 1))
         + ((CHOOSE i \in 1..10 : DigitChars[i] = ds[Len(ds)]) - 1)

RECURSIVE NatToText(_)
\* str(n) of a natural number, as an f-string formats it
NatToText(n) ==
    IF n < 10 THEN <<DigitChars[n + 1]>>
    ELSE NatToText(n \div 10) \o <<DigitChars[(n % 10) + 1]>>

\* str.lower() on the letters of the model
LowerOf(c) ==
    IF c \in Upper
    THEN CHOOSE l \in Lower :
            \E i \in 1..26 :
                /\ <<"A","B","C","D","E","F","G","H","I","J","K","L","M",
                     "N","O","P","Q","R","S","T","U","V","W","X","Y","Z">>[i] = c
                /\ <<"a","b","c","d","e","f","g","h","i","j","k","l","m",
                     "n","o","p","q","r","s","t","u","v","w","x","y","z">>[i] = l
    ELSE c

ToLower(t) == [i \in 1..Len(t) |-> LowerOf(t[i])]

\* needle in text
Contains(t, needle) == Find(t, 1, needle) # 0

---------------------------------------------------------------------------
(* Lines 82-94: fence removal, the line filter, dedent.                     *)

\* raw_code.replace("```python", "").replace("```", "").strip()
StripFences(t) ==
    Strip(Replace(Replace(t, <<Backtick, Backtick, Backtick, "p", "y", "t", "h", "o", "n">>, <<>>), <<Backtick, Backtick, Backtick>>, <<>>))

\* The first re.match of line 90: one character of IdentStart, a greedy run
\* of TokenChars, a greedy run of whitespace, then "=". Neither run can give
\* a character back to "=", which is in neither class.
AssignMatch(s) ==
    /\ Len(s) >= 1
    /\ s[1] \in IdentStart
    /\ LET a == SkipIn(s, 2, TokenChars)
           b == SkipIn(s, a, Space)
       IN  b <= Len(s) /\ s[b] = "="

Keywords == {<<"d", "f">>, <<"p", "d">>, <<"i", "f">>, <<"f", "o", "r">>, <<"f", "r", "o", "m">>, <<"i", "m", "p", "o", "r", "t">>, <<"w", "i", "t", "h">>}

KeywordMatchNoBoundary(s) ==
    \E w \in Keywords : StartsAt(s, 1, w)

\* The second re.match, line 91: one of the keywords, then a word boundary.
KeywordMatch(s) ==
    \E w \in Keywords :
        /\ StartsAt(s, 1, w)
        /\ (Len(s) = Len(w) \/ s[Len(w) + 1] \notin WordChars)

\* the body of the for loop, lines 87-92: whether the line is appended
Keeps(line) ==
    LET stripped == Strip(line)
    IN  /\ stripped # <<>>
        /\ stripped[1] # "#"
        /\ (AssignMatch(stripped) \/ KeywordMatch(stripped))

\* lines 85-92
FilterLines(t) == SelectSeq(SplitLines(t), Keeps)

\* the characters of [ \t]* a line starts with
Indent(line) == SubSeq(line, 1, SkipIn(line, 1, {" ", "\t"}) - 1)

RECURSIVE CommonPrefix(_, _)
CommonPrefix(x, y) ==
    IF x = <<>> \/ y = <<>> \/ x[1] # y[1] THEN <<>>
    ELSE <<x[1]>> \o CommonPrefix(Tail(x), Tail(y))

RECURSIVE Margin(_)
\* textwrap.dedent's margin over the lines that hold a non-blank character
Margin(lines) ==
    IF Len(lines) = 1 THEN Indent(lines[1])
    ELSE CommonPrefix(Indent(lines[1]), Margin(Tail(lines)))

\* textwrap.dedent("\n".join(python_lines)).strip(), line 94. The lines the
\* filter keeps all hold a non-blank character.
Dedent(lines) ==
    IF lines = <<>> THEN <<>>
    ELSE LET m == Len(Margin(lines))
         IN  Strip(JoinLines([i \in 1..Len(lines) |->
                                SubSeq(lines[i], m + 1, Len(lines[i]))]))

---------------------------------------------------------------------------
(* Lines 96-133: the auto-fixes. Each rule is one re.sub; a rule is named   *)
(* by its position in the chain, 1..6.                                      *)

NoMatch == [ok |-> FALSE, end |-> 0, g1 |-> <<>>, g2 |-> <<>>, g3 |-> <<>>]

\* The pattern of line 98 tried at position s: the literal, one or more
\* characters that are not a comma, the comma, a run of whitespace, the
\* literal format=, then lazily up to the first ")". The comma-free run ends
\* at the first comma, the whitespace run at the first non-space, and the
\* lazy run cannot cross a line break.
MatchToDatetime(t, s) ==
    LET lit == <<"p", "d", ".", "t", "o", "_", "d", "a", "t", "e", "t", "i", "m", "e", "(">>
        a == s + Len(lit)
        c == SkipNotIn(t, a, {","})
        w == SkipIn(t, c + 1, Space)
        f == w + 7
        q == SkipNotIn(t, f, {")", "\n"})
    IN  IF /\ StartsAt(t, s, lit)
           /\ c > a
           /\ c <= Len(t)
           /\ StartsAt(t, w, <<"f", "o", "r", "m", "a", "t", "=">>)
           /\ q <= Len(t)
           /\ t[q] = ")"
        THEN [ok |-> TRUE, end |-> q, g1 |-> SubSeq(t, a, c - 1),
              g2 |-> <<>>, g3 |-> <<>>]
        ELSE NoMatch

\* The head the patterns of lines 103-130 share, tried at s: df[' and a run
\* of word characters. Where the run ends (0 when there is no match).
ColumnEnd(t, s) ==
    LET a == s + 4
        b == SkipIn(t, a, WordChars)
    IN  IF StartsAt(t, s, <<"d", "f", "[", "'">>) /\ b > a THEN b ELSE 0

\* The pattern of line 103.
MatchUpper(t, s) ==
    LET b == ColumnEnd(t, s)
        tail == <<"'", "]", ".", "u", "p", "p", "e", "r", "(", ")">>
    IN  IF b > 0 /\ StartsAt(t, b, tail)
        THEN [ok |-> TRUE, end |-> b + Len(tail) - 1, g1 |-> SubSeq(t, s + 4, b - 1),
              g2 |-> <<>>, g3 |-> <<>>]
        ELSE NoMatch

MatchSplitOneDigit(t, s, call, zeroOnly) ==
    LET b == ColumnEnd(t, s)
        c == b + Len(call)
        d == SkipNotIn(t, c, {"'"})
        i == d + 3
    IN  IF /\ b > 0
           /\ StartsAt(t, b, call)
           /\ d > c
           /\ StartsAt(t, d, <<"'", ")", "[">>)
           /\ i + 1 <= Len(t)
           /\ IF zeroOnly THEN t[i] = "0" ELSE t[i] \in Digits
           /\ t[i + 1] = "]"
        THEN [ok |-> TRUE, end |-> i + 1, g1 |-> SubSeq(t, s + 4, b - 1),
              g2 |-> SubSeq(t, c, d - 1), g3 |-> <<t[i]>>]
        ELSE NoMatch

\* The patterns of lines 108, 113, 125 and 130: the head, the call (.split or
\* .str.split), a quoted run of one or more characters that are not a quote,
\* and an index in brackets: the literal 0 (zeroOnly) or a run of digits.
MatchSplit(t, s, call, zeroOnly) ==
    LET b == ColumnEnd(t, s)
        c == b + Len(call)
        d == SkipNotIn(t, c, {"'"})
        i == d + 3
        e == IF zeroOnly THEN i + 1 ELSE SkipIn(t, i, Digits)
    IN  IF /\ b > 0
           /\ StartsAt(t, b, call)
           /\ d > c
           /\ StartsAt(t, d, <<"'", ")", "[">>)
           /\ IF zeroOnly THEN StartsAt(t, i, <<"0">>) ELSE e > i
           /\ e <= Len(t)
           /\ t[e] = "]"
        THEN [ok |-> TRUE, end |-> e, g1 |-> SubSeq(t, s + 4, b - 1),
              g2 |-> SubSeq(t, c, d - 1), g3 |-> SubSeq(t, i, e - 1)]
        ELSE NoMatch

CallSplit == <<"'", "]", ".", "s", "p", "l", "i", "t", "(", "'">>

CallStrSplit == <<"'", "]", ".", "s", "t", "r", ".", "s", "p", "l", "i", "t", "(", "'">>

\* the pattern of rule r tried at position s of t
Match(r, t, s) ==
    CASE r = 1 -> MatchToDatetime(t, s)
      [] r = 2 -> MatchUpper(t, s)
      [] r = 3 -> MatchSplit(t, s, CallSplit, TRUE)
      [] r = 4 -> MatchSplit(t, s, CallStrSplit, TRUE)
      [] r = 5 -> MatchSplit(t, s, CallSplit, FALSE)
      [] r = 6 -> MatchSplit(t, s, CallStrSplit, FALSE)

\* the guarded split expression both templates spell out
GuardedSplit(col, sep, idx) ==
    <<"d", "f", "[", "'">> \o col \o <<"'", "]", ".", "a", "s", "t", "y", "p", "e", "(", "s", "t", "r", ")", ".", "a", "p", "p", "l", "y", "(", "l", "a", "m", "b", "d", "a", " ", "x", ":", " ", "x", ".", "s", "p", "l", "i", "t", "(", "'">> \o sep
    \o <<"'", ")", "[">> \o idx \o <<"]", " ", "i", "f", " ", "p", "d", ".", "n", "o", "t", "n", "a", "(", "x", ")", " ", "a", "n", "d", " ", "l", "e", "n", "(", "x", ".", "s", "p", "l", "i", "t", "(", "'">> \o sep
    \o <<"'", ")", ")", ">">> \o idx \o <<" ", "e", "l", "s", "e", " ", "x", ")">>

UnguardedSplitZero(col, sep) ==
    <<"d", "f", "[", "'">> \o col \o <<"'", "]", ".", "a", "p", "p", "l", "y", "(", "l", "a", "m", "b", "d", "a", " ", "x", ":", " ", "x", ".", "s", "p", "l", "i", "t", "(", "'">> \o sep
    \o <<"'", ")", "[", "0", "]", " ", "i", "f", " ", "p", "d", ".", "n", "o", "t", "n", "a", "(", "x", ")", " ", "a", "n", "d", " ", "l", "e", "n", "(", "x", ".", "s", "p", "l", "i", "t", "(", "'">> \o sep
    \o <<"'", ")", ")", ">", "0", " ", "e", "l", "s", "e", " ", "x", ")">>

\* the replacement template of lines 109 and 114
SplitZeroTemplate(col, sep) == GuardedSplit(col, sep, <<"0">>)

\* safe_split, lines 118-122
safe_split(m) == GuardedSplit(m.g1, m.g2, NatToText(ToNat(m.g3)))

\* what rule r puts in place of match m
Replacement(r, m) ==
    CASE r = 1 -> <<"p", "d", ".", "t", "o", "_", "d", "a", "t", "e", "t", "i", "m", "e", "(">> \o m.g1
                  \o <<".", "a", "s", "t", "y", "p", "e", "(", "s", "t", "r", ")", ".", "s", "t", "r", ".", "s", "t", "r", "i", "p", "(", ")", ",", " ", "e", "r", "r", "o", "r", "s", "=", "'", "c", "o", "e", "r", "c", "e", "'", ")">>
      [] r = 2 -> <<"d", "f", "[", "'">> \o m.g1 \o <<"'", "]", ".", "a", "s", "t", "y", "p", "e", "(", "s", "t", "r", ")", ".", "s", "t", "r", ".", "u", "p", "p", "e", "r", "(", ")">>
      [] r \in {3, 4} -> SplitZeroTemplate(m.g1, m.g2)
      [] r \in {5, 6} -> safe_split(m)

\* the first position s >= p where the pattern of r matches (0 when none)
NextMatch(r, t, p) ==
    IF \E s \in p..Len(t) : Match(r, t, s).ok
    THEN CHOOSE s \in p..Len(t) :
            Match(r, t, s).ok /\ \A u \in p..(s - 1) : ~Match(r, t, u).ok
    ELSE 0

RECURSIVE SubFrom(_, _, _)
SubFrom(r, t, p) ==
    LET s == NextMatch(r, t, p)
        m == Match(r, t, s)
    IN  IF s = 0 THEN SubSeq(t, p, Len(t))
        ELSE SubSeq(t, p, s - 1) \o Replacement(r, m) \o SubFrom(r, t, m.end + 1)

\* re.sub(pattern of r, replacement of r, t): leftmost matches, not overlapping
Sub(r, t) == SubFrom(r, t, 1)

---------------------------------------------------------------------------
(* The table, and what executing generated code does to it.                 *)

\* uploads the user may choose; 0 is "no file"
Files == {1, 2}

ObjIds == {1, 2}

Cols == {1, 2, 3}

\* the third name is one a table may well use, and the one the script's
\* error handler looks for
ColName(c) == IF c = 1 THEN <<"a">> ELSE IF c = 2 THEN <<"b">> ELSE <<"K", "e", "y", "E", "r", "r", "o", "r">>

Types == {"text", "number"}

\* a table: its columns, each paired with the kind of value it holds
NoTable == {<<0, "free">>}

EmptyTable == {}

HasCol(tbl, c) == \E y \in Types : <<c, y>> \in tbl

TypeOf(tbl, c) == CHOOSE y \in Types : <<c, y>> \in tbl

\* df[c] = <values of kind y>
SetCol(tbl, c, y) == {e \in tbl : e[1] # c} \cup {<<c, y>>}

\* pd.read_csv / pd.read_excel, lines 31-34
FileTable(f) == IF f = 1 THEN {<<1, "text">>} ELSE {<<1, "number">>}

NoExc == [type |-> "none", text |-> <<>>]

\* str(KeyError(name)) is repr(name)
KeyErrorOf(c) == [type |-> "KeyError", text |-> <<"'">> \o ColName(c) \o <<"'">>]

StrAccessorError ==
    [type |-> "AttributeError",
     text |-> <<"C", "a", "n", " ", "o", "n", "l", "y", " ", "u", "s", "e", " ", ".", "s", "t", "r", " ", "a", "c", "c", "e", "s", "s", "o", "r", " ", "w", "i", "t", "h", " ", "s", "t", "r", "i", "n", "g", " ", "v", "a", "l", "u", "e", "s", "!">>]

SyntaxErrorExc ==
    [type |-> "SyntaxError", text |-> <<"i", "n", "v", "a", "l", "i", "d", " ", "s", "y", "n", "t", "a", "x", " ", "(", "<", "s", "t", "r", "i", "n", "g", ">", ",", " ", "l", "i", "n", "e", " ", "1", ")">>]

\* the statements of the generated programs:
\*   assign  df[col] = 0                      in place, adds the column if new
\*   upper   df[col] = df[col].upper()        as the model writes it; KeyError
\*                                            when col is missing, else text
\*   strip   df[col] = df[col].str.strip()    KeyError when col is missing,
\*                                            AttributeError on numbers
\*   rebind  df = pd.DataFrame()              binds the name df to a new table
\*   junk    a line that is not Python        SyntaxError before anything runs
Stmts ==
    {[op |-> o, col |-> c] : o \in {"assign", "upper", "strip"}, c \in Cols}
    \cup {[op |-> "rebind", col |-> 0]}

Junk == [op |-> "junk", col |-> 0]

\* the line of model output that asks for statement st
RawLine(st) ==
    LET target == <<"d", "f", "[", "'">> \o ColName(st.col) \o <<"'", "]">>
    IN  CASE st.op = "assign" -> target \o <<" ", "=", " ", "0">>
          [] st.op = "upper"  -> target \o <<" ", "=", " ">> \o target \o <<".", "u", "p", "p", "e", "r", "(", ")">>
          [] st.op = "strip"  -> target \o <<" ", "=", " ">> \o target \o <<".", "s", "t", "r", ".", "s", "t", "r", "i", "p", "(", ")">>
          [] st.op = "rebind" -> <<"d", "f", " ", "=", " ", "p", "d", ".", "D", "a", "t", "a", "F", "r", "a", "m", "e", "(", ")">>

\* the line of executed code that is statement st: what the auto-fixes make
\* of RawLine(st)
ExecLine(st) ==
    LET target == <<"d", "f", "[", "'">> \o ColName(st.col) \o <<"'", "]">>
    IN  IF st.op = "upper"
        THEN target \o <<" ", "=", " ">> \o target \o <<".", "a", "s", "t", "y", "p", "e", "(", "s", "t", "r", ")", ".", "s", "t", "r", ".", "u", "p", "p", "e", "r", "(", ")">>
        ELSE RawLine(st)

\* the statements a text is when executed: its lines, and the whole text a
\* syntax error when a line is none of the statements
Effect(code) ==
    LET lines == IF code = <<>> THEN <<>> ELSE SplitLines(code)
    IN  IF \A i \in 1..Len(lines) : \E st \in Stmts : ExecLine(st) = lines[i]
        THEN [i \in 1..Len(lines) |-> CHOOSE st \in Stmts : ExecLine(st) = lines[i]]
        ELSE <<Junk>>

RECURSIVE SeqsUpTo(_, _)
\* the sequences of at most n elements of S
SeqsUpTo(S, n) ==
    IF n = 0 THEN {<<>>}
    ELSE LET shorter == SeqsUpTo(S, n - 1)
         IN  shorter \cup {Append(q, x) : q \in shorter, x \in S}

Progs == SeqsUpTo(Stmts, MaxStmts)

FreeId(h) == CHOOSE o \in ObjIds : h[o] = NoTable

\* one statement run in a namespace whose df is object ns, on heap h; own is
\* the object the script's df names, which a rebinding leaves alive
Step(st, ns, h, own) ==
    LET tbl == h[ns]
        has == HasCol(tbl, st.col)
    IN  CASE st.op = "assign" ->
               [ns |-> ns, exc |-> NoExc,
                heap |-> [h EXCEPT ![ns] = SetCol(tbl, st.col, "number")]]
          [] st.op = "rebind" ->
               LET h1 == IF ns = own THEN h ELSE [h EXCEPT ![ns] = NoTable]
                   o == FreeId(h1)
               IN  [ns |-> o, exc |-> NoExc, heap |-> [h1 EXCEPT ![o] = EmptyTable]]
          [] st.op = "upper" ->
               IF has
               THEN [ns |-> ns, exc |-> NoExc,
                     heap |-> [h EXCEPT ![ns] = SetCol(tbl, st.col, "text")]]
               ELSE [ns |-> ns, heap |-> h, exc |-> KeyErrorOf(st.col)]
          [] st.op = "strip" ->
               [ns |-> ns, heap |-> h,
                exc |-> IF ~has THEN KeyErrorOf(st.col)
                        ELSE IF TypeOf(tbl, st.col) = "number" THEN StrAccessorError
                        ELSE NoExc]
          [] st.op = "junk" ->
               [ns |-> ns, heap |-> h, exc |-> SyntaxErrorExc]

RECURSIVE Run(_, _, _, _)
\* exec(clean_code, {"df": df, ...}), line 141: the statements in order, up
\* to the first that raises
Run(p, ns, h, own) ==
    IF p = <<>> THEN [ns |-> ns, heap |-> h, exc |-> NoExc]
    ELSE LET r == Step(Head(p), ns, h, own)
         IN  IF r.exc # NoExc THEN r ELSE Run(Tail(p), r.ns, r.heap, own)

WriteBackNamespace(own, ns) == ns

\* st.session_state.df = df, line 142: the script's df, not the namespace's
WriteBack(own, ns) == own

\* objects no name refers to are reclaimed
Collect(h, keep) == [o \in ObjIds |-> IF o = keep THEN h[o] ELSE NoTable]

\* lines 145-167
FriendlyMessage(e) ==
    LET error_message == ToLower(e.text)
    IN  IF Contains(error_message, <<"c", "a", "n", " ", "o", "n", "l", "y", " ", "u", "s", "e", " ", ".", "s", "t", "r", " ", "a", "c", "c", "e", "s", "s", "o", "r">>) THEN "text"
        ELSE IF Contains(error_message, <<"k", "e", "y", "e", "r", "r", "o", "r">>) THEN "column"
        ELSE IF Contains(error_message, <<"v", "a", "l", "u", "e", "e", "r", "r", "o", "r">>) THEN "format"
        ELSE "generic"

LoadAlways(s) == TRUE

\* if "df" not in st.session_state, line 30
LoadNeeded(s) == s = 0

ContinueAfterFailure == "updated"

\* st.stop(), line 172: the run ends
AfterFailure == "idle"

---------------------------------------------------------------------------
(* The script. One run goes from the top of the file to its end or to       *)
(* st.stop(); the session state outlives it.                                *)

FixPc == <<"fix1", "fix2", "fix3", "fix4", "fix5", "fix6", "display">>

\* a program as the model returns it: its lines inside a fence
Fenced(p) ==
    <<Backtick, Backtick, Backtick, "p", "y", "t", "h", "o", "n", "\n">> \o JoinLines([i \in 1..Len(p) |-> RawLine(p[i])]) \o <<"\n", Backtick, Backtick, Backtick>>

\* the model outputs of the session specification: every program, a reply
\* without code, and a reply whose prose begins with a keyword
ModelOutputs ==
    {Fenced(p) : p \in Progs}
    \cup { <<"S", "u", "r", "e", ",", " ", "h", "e", "r", "e", " ", "i", "s", " ", "t", "h", "e", " ", "c", "o", "d", "e", " ", "y", "o", "u", " ", "a", "s", "k", "e", "d", " ", "f", "o", "r">>,
           <<"f", "o", "r", " ", "c", "o", "l", "u", "m", "n", " ", "a", " ", "n", "o", "t", "h", "i", "n", "g", " ", "n", "e", "e", "d", "s", " ", "t", "o", " ", "c", "h", "a", "n", "g", "e">> }

NoRun ==
    /\ raw_code = <<>>
    /\ python_lines = <<>>
    /\ clean_code = <<>>
    /\ filtered = <<>>
    /\ displayed = <<>>
    /\ executed = <<>>
    /\ prog = <<>>
    /\ exc = NoExc
    /\ user_friendly = "none"
    /\ before = NoTable

Init ==
    /\ pc = "idle"
    /\ session_df = 0
    /\ heap = [o \in ObjIds |-> NoTable]
    /\ df = 0
    /\ shown = <<>>
    /\ steps = <<>>
    /\ last_left = NoTable
    /\ loaded = 0
    /\ NoRun

\* lines 26-45: a rerun of the script with the uploader holding file (0: none)
\* and apply telling whether the button was pressed with a prompt typed
Rerun(file, apply) ==
    /\ pc = "idle"
    /\ raw_code' = <<>>
    /\ python_lines' = <<>>
    /\ clean_code' = <<>>
    /\ filtered' = <<>>
    /\ displayed' = <<>>
    /\ executed' = <<>>
    /\ prog' = <<>>
    /\ exc' = NoExc
    /\ user_friendly' = "none"
    /\ before' = NoTable
    /\ steps' = <<>>
    /\ IF file = 0
       THEN /\ df' = 0
            /\ shown' = <<>>
            /\ pc' = "idle"
            /\ UNCHANGED <<session_df, heap, last_left, loaded>>
       ELSE /\ IF LoadNeeded(session_df)
               THEN LET o == FreeId(Collect(heap, 0))
                    IN  /\ session_df' = o
                        /\ heap' = [Collect(heap, 0) EXCEPT ![o] = FileTable(file)]
                        /\ last_left' = IF loaded = 0 THEN FileTable(file)
                                        ELSE last_left
                        /\ loaded' = IF loaded = 0 THEN o ELSE loaded
               ELSE UNCHANGED <<session_df, heap, last_left, loaded>>
            /\ df' = session_df'
            /\ shown' = <<"Current Data">>
            /\ pc' = IF apply THEN "generate" ELSE "idle"

\* lines 75-81: the completion arrives
Generate(raw) ==
    /\ pc = "generate"
    /\ raw_code' = raw
    /\ pc' = "strip"
    /\ steps' = Append(steps, "generate")
    /\ UNCHANGED <<session_df, heap, df, python_lines, clean_code, filtered,
                   displayed, executed, prog, exc, user_friendly, shown, before,
                   last_left, loaded>>

\* lines 75-79 raise, lines 187-188 report
GenerateFails ==
    /\ pc = "generate"
    /\ shown' = Append(shown, "Unexpected problem")
    /\ pc' = "idle"
    /\ steps' = Append(steps, "generate")
    /\ UNCHANGED <<session_df, heap, df, raw_code, python_lines, clean_code,
                   filtered, displayed, executed, prog, exc, user_friendly,
                   before, last_left, loaded>>

\* line 82
StripFencesStep ==
    /\ pc = "strip"
    /\ raw_code' = StripFences(raw_code)
    /\ pc' = "filter"
    /\ steps' = Append(steps, "strip")
    /\ UNCHANGED <<session_df, heap, df, python_lines, clean_code, filtered,
                   displayed, executed, prog, exc, user_friendly, shown, before,
                   last_left, loaded>>

\* lines 85-92
FilterStep ==
    /\ pc = "filter"
    /\ python_lines' = FilterLines(raw_code)
    /\ pc' = "dedent"
    /\ steps' = Append(steps, "filter")
    /\ UNCHANGED <<session_df, heap, df, raw_code, clean_code, filtered,
                   displayed, executed, prog, exc, user_friendly, shown, before,
                   last_left, loaded>>

\* line 94
DedentStep ==
    /\ pc = "dedent"
    /\ clean_code' = Dedent(python_lines)
    /\ filtered' = clean_code'
    /\ pc' = "fix1"
    /\ steps' = Append(steps, "dedent")
    /\ UNCHANGED <<session_df, heap, df, raw_code, python_lines, displayed,
                   executed, prog, exc, user_friendly, shown, before, last_left,
                   loaded>>

\* lines 97-133: the r-th re.sub of the chain
AutoFix(r) ==
    /\ pc = FixPc[r]
    /\ clean_code' = Sub(r, clean_code)
    /\ pc' = FixPc[r + 1]
    /\ steps' = Append(steps, FixPc[r])
    /\ UNCHANGED <<session_df, heap, df, raw_code, python_lines, filtered,
                   displayed, executed, prog, exc, user_friendly, shown, before,
                   last_left, loaded>>

\* lines 136-137
DisplayCode ==
    /\ pc = "display"
    /\ displayed' = clean_code
    /\ shown' = Append(shown, "Generated Code")
    /\ pc' = "exec"
    /\ steps' = Append(steps, "display")
    /\ UNCHANGED <<session_df, heap, df, raw_code, python_lines, clean_code,
                   filtered, executed, prog, exc, user_friendly, before,
                   last_left, loaded>>

\* lines 140-172: exec and what follows it inside the try
Exec ==
    /\ pc = "exec"
    /\ LET r == Run(Effect(clean_code), df, heap, df)
       IN  /\ executed' = clean_code
           /\ prog' = Effect(clean_code)
           /\ before' = heap[session_df]
           /\ exc' = r.exc
           /\ IF r.exc = NoExc
              THEN /\ session_df' = WriteBack(df, r.ns)
                   /\ user_friendly' = user_friendly
                   /\ shown' = Append(shown, "success")
                   /\ pc' = "updated"
              ELSE /\ session_df' = session_df
                   /\ user_friendly' = FriendlyMessage(r.exc)
                   /\ shown' = shown \o <<"error", "info", "code">>
                   /\ pc' = AfterFailure
           /\ heap' = Collect(r.heap, session_df')
           /\ last_left' = heap'[session_df']
    /\ steps' = Append(steps, "exec")
    /\ UNCHANGED <<df, raw_code, python_lines, clean_code, filtered, displayed,
                   loaded>>

\* lines 175-176
ShowUpdated ==
    /\ pc = "updated"
    /\ shown' = Append(shown, "Updated Data")
    /\ pc' = "download"
    /\ steps' = Append(steps, "updated")
    /\ UNCHANGED <<session_df, heap, df, raw_code, python_lines, clean_code,
                   filtered, displayed, executed, prog, exc, user_friendly,
                   before, last_left, loaded>>

\* lines 179-185
Download ==
    /\ pc = "download"
    /\ shown' = Append(shown, "Download Cleaned CSV")
    /\ pc' = "idle"
    /\ steps' = Append(steps, "download")
    /\ UNCHANGED <<session_df, heap, df, raw_code, python_lines, clean_code,
                   filtered, displayed, executed, prog, exc, user_friendly,
                   before, last_left, loaded>>

\* lines 82-133, the text pipeline
Pipeline ==
    \/ StripFencesStep
    \/ FilterStep
    \/ DedentStep
    \/ \E r \in 1..6 : AutoFix(r)

Next ==
    \/ \E file \in Files \cup {0}, apply \in BOOLEAN : Rerun(file, apply)
    \/ \E raw \in ModelOutputs : Generate(raw)
    \/ GenerateFails
    \/ Pipeline
    \/ DisplayCode
    \/ Exec
    \/ ShowUpdated
    \/ Download

Spec == Init /\ [][Next]_vars

---------------------------------------------------------------------------
(* The text pipeline on families of model outputs. Each specification       *)
(* starts where a run stands once the completion has arrived (file 1        *)
(* uploaded, the button pressed) and draws the completion from a family     *)
(* of concatenated fragments.                                               *)

RECURSIVE Concats(_, _)
\* the texts made of at most n fragments of F
Concats(F, n) ==
    IF n = 0 THEN {<<>>}
    ELSE LET shorter == Concats(F, n - 1)
         IN  shorter \cup {t \o f : t \in shorter, f \in F}

\* lines as the filter meets them: keywords with and without a boundary,
\* assignments, comments, indentation, fences
FilterFrags ==
    { <<"d", "f">>, <<"x">>, <<"=">>, <<" ">>, <<"\n">>, <<"#">>, <<"(">>,
      <<Backtick, Backtick, Backtick>>, <<"p", "y", "t", "h", "o", "n">> }

\* the calls the .upper and .split rules look for, whole and in pieces
FixFrags ==
    { <<"d", "f", "[", "'", "a", "'", "]">>, <<".", "s", "p", "l", "i", "t", "(", "'", ",", "'", ")">>, <<".", "s", "t", "r">>, <<"[", "0", "]">>, <<"[", "0", "7", "]">>,
      <<".", "u", "p", "p", "e", "r", "(", ")">>, <<"d", "f", "[", "'", "a", "'", "]", ".", "s", "p", "l", "i", "t", "(", "'">>, <<"\n">> }

\* pd.to_datetime calls, whole and in pieces, and a call of another function
\* that takes a format argument
DateFrags ==
    { <<"p", "d", ".", "t", "o", "_", "d", "a", "t", "e", "t", "i", "m", "e", "(", "x">>, <<")">>, <<",", " ", "f", "o", "r", "m", "a", "t", "=">>, <<",", " ", "f", "o", "r", "m", "a", "t", "=", "'", "%", "Y", "'", ")">>,
      <<",", " ", "f", "o", "r", "m", "a", "t", "=", "f", "(", ")", ")">>, <<",", "\n", "f", "o", "r", "m", "a", "t", "=", "f", ")", ")">>, <<"\n", "d", "f", "[", "'", "y", "'", "]", " ", "=", " ", "g", "(", "x", ",", " ", "f", "o", "r", "m", "a", "t", "=", "'", "%", "Y", "'", ")">> }

InitText(inputs) ==
    /\ pc = "strip"
    /\ session_df = 1
    /\ heap = [o \in ObjIds |-> IF o = 1 THEN FileTable(1) ELSE NoTable]
    /\ df = 1
    /\ raw_code \in inputs
    /\ python_lines = <<>>
    /\ clean_code = <<>>
    /\ filtered = <<>>
    /\ displayed = <<>>
    /\ executed = <<>>
    /\ prog = <<>>
    /\ exc = NoExc
    /\ user_friendly = "none"
    /\ shown = <<"Current Data">>
    /\ steps = <<"generate">>
    /\ before = NoTable
    /\ last_left = FileTable(1)
    /\ loaded = 1

InitFilter == InitText(Concats(FilterFrags, MaxFrags))

NextFilter == StripFencesStep \/ FilterStep \/ DedentStep

\* lines 82-94 on the filter family
SpecFilter == InitFilter /\ [][NextFilter]_vars

InitFix == InitText(Concats(FixFrags, MaxFrags))

\* lines 82-133 on the .upper/.split family
SpecFix == InitFix /\ [][Pipeline]_vars

InitDate == InitText(Concats(DateFrags, MaxFrags))

\* lines 82-133 on the pd.to_datetime family
SpecDate == InitDate /\ [][Pipeline]_vars

---------------------------------------------------------------------------
(* Properties.                                                              *)

Done(step) == \E i \in 1..Len(steps) : steps[i] = step

Shown(what) == \E i \in 1..Len(shown) : shown[i] = what

\* the line with its surrounding whitespace removed is s
StrippedIs(line, s) ==
    \E i \in 1..Len(line), j \in 1..Len(line) :
        /\ i <= j
        /\ s = SubSeq(line, i, j)
        /\ line[i] \notin Space
        /\ line[j] \notin Space
        /\ \A k \in 1..Len(line) : (k < i \/ k > j) => line[k] \in Space

\* an identifier-like token, optional whitespace, "="
AssignShape(s) ==
    /\ s[1] \in Lower \cup Upper \cup {"_"}
    /\ \E e \in 2..Len(s) :
        /\ s[e] = "="
        /\ \E m \in 1..(e - 1) :
            /\ \A k \in 2..m :
                s[k] \in Lower \cup Upper \cup Digits \cup {"_", "[", "]", "'", "\""}
            /\ \A k \in (m + 1)..(e - 1) : s[k] \in Space

\* begins with one of the whole words
LeadingWord(s) ==
    \E w \in {<<"d", "f">>, <<"p", "d">>, <<"i", "f">>, <<"f", "o", "r">>, <<"f", "r", "o", "m">>, <<"i", "m", "p", "o", "r", "t">>, <<"w", "i", "t", "h">>} :
        /\ Len(s) >= Len(w)
        /\ SubSeq(s, 1, Len(w)) = w
        /\ (Len(s) > Len(w) => s[Len(w) + 1] \notin WordChars)

Conforms(line) ==
    \E i \in 1..Len(line), j \in 1..Len(line) :
        /\ StrippedIs(line, SubSeq(line, i, j))
        /\ line[i] # "#"
        /\ (AssignShape(SubSeq(line, i, j)) \/ LeadingWord(SubSeq(line, i, j)))

\* the lines of a text, cut at each "\n"
LinesOf(t) ==
    LET cuts == <<0>> \o SelectSeq([i \in 1..Len(t) |-> IF t[i] = "\n" THEN i ELSE 0],
                                   LAMBDA x : x # 0) \o <<Len(t) + 1>>
    IN  [k \in 1..(Len(cuts) - 1) |-> SubSeq(t, cuts[k] + 1, cuts[k + 1] - 1)]

\* C1: every line the filter keeps, and every line of the filtered code, is
\* non-empty once stripped, is no comment, and has the assignment shape or
\* begins with one of the whole words df, pd, if, for, from, import, with.
C1_FilterAdmitsOnlyAllowed ==
    /\ \A i \in 1..Len(python_lines) : Conforms(python_lines[i])
    /\ (Done("dedent") /\ clean_code # <<>>) =>
            \A i \in 1..Len(LinesOf(clean_code)) : Conforms(LinesOf(clean_code)[i])

\* C1's case: the filter has kept a line and dropped a line.
C1_Witness ==
    /\ Done("dedent")
    /\ Len(python_lines) >= 1
    /\ Len(LinesOf(raw_code)) > Len(python_lines)

\* C2: each rule applied to the text it has just produced changes nothing.
C2_RulesIdempotent ==
    \A r \in 1..6 : pc = FixPc[r + 1] => Sub(r, clean_code) = clean_code

\* C3: after a failed Apply the session table equals the table before it.
C3_FailureChangesNothing ==
    exc # NoExc => heap[session_df] = before

\* C4: the file is read only while the session holds no table, and every
\* Apply runs against the table as the load and the earlier Applies left it.
C4_TableHeldAcrossSession ==
    /\ session_df # 0 => heap[session_df] = last_left
    /\ pc \notin {"idle", "generate"} => (df = session_df /\ df # 0)

\* C4's case: an Apply is about to run on a table an earlier Apply changed.
C4_Witness ==
    /\ pc = "exec"
    /\ heap[df] \notin {FileTable(f) : f \in Files}

\* the message the claim names for an exception text
MessageByText(text) ==
    LET low == ToLower(text)
    IN  IF Contains(low, <<"c", "a", "n", " ", "o", "n", "l", "y", " ", "u", "s", "e", " ", ".", "s", "t", "r", " ", "a", "c", "c", "e", "s", "s", "o", "r">>) THEN "text"
        ELSE IF Contains(low, <<"k", "e", "y", "e", "r", "r", "o", "r">>) THEN "column"
        ELSE IF Contains(low, <<"v", "a", "l", "u", "e", "e", "r", "r", "o", "r">>) THEN "format"
        ELSE "generic"

\* C5: a failed execution shows the message the first matching test on the
\* lower-cased exception text selects, and a reference to a column the table
\* does not have shows the nonexistent-column hint.
C5_FriendlyMessage ==
    exc # NoExc =>
        /\ user_friendly = MessageByText(exc.text)
        /\ exc.type = "KeyError" => user_friendly = "column"

\* t holds df['<word>'] followed by tail at some position
HasColumnCall(t, tail) ==
    \E s \in 1..Len(t) :
        /\ StartsAt(t, s, <<"d", "f", "[", "'">>)
        /\ \E n \in 1..Len(t) :
            /\ s + 3 + n <= Len(t)
            /\ \A k \in (s + 4)..(s + 3 + n) : t[k] \in WordChars
            /\ StartsAt(t, s + 4 + n, tail)

\* t holds df['<word>']<call>'<sep>')[<digits>] at some position
HasSplitCall(t, call) ==
    \E s \in 1..Len(t) :
        /\ StartsAt(t, s, <<"d", "f", "[", "'">>)
        /\ \E n \in 1..Len(t) :
            /\ s + 3 + n <= Len(t)
            /\ \A k \in (s + 4)..(s + 3 + n) : t[k] \in WordChars
            /\ StartsAt(t, s + 4 + n, call)
            /\ LET c == s + 4 + n + Len(call)
               IN  \E m \in 1..Len(t) :
                     /\ c + m - 1 <= Len(t)
                     /\ \A k \in c..(c + m - 1) : t[k] # "'"
                     /\ StartsAt(t, c + m, <<"'", ")", "[">>)
                     /\ \E d \in 1..Len(t) :
                          /\ c + m + 2 + d <= Len(t)
                          /\ \A k \in (c + m + 3)..(c + m + 2 + d) : t[k] \in Digits
                          /\ t[c + m + 3 + d] = "]"

\* the known-unsafe patterns rules 2..r target
Unsafe(t, r) ==
    \/ r >= 2 /\ HasColumnCall(t, <<"'", "]", ".", "u", "p", "p", "e", "r", "(", ")">>)
    \/ r >= 5 /\ HasSplitCall(t, <<"'", "]", ".", "s", "p", "l", "i", "t", "(", "'">>)
    \/ r >= 6 /\ HasSplitCall(t, <<"'", "]", ".", "s", "t", "r", ".", "s", "p", "l", "i", "t", "(", "'">>)

\* C6: once the .upper and .split rules have run the code holds none of the
\* patterns they target, and from the moment a rule has run no later rule
\* brings its pattern back.
C6_NoUnsafePatternLeft ==
    /\ \A r \in 2..6 : pc = FixPc[r + 1] => ~Unsafe(clean_code, r)
    /\ Done("fix6") => ~Unsafe(clean_code, 6)

\* C6's case: the filtered code held a targeted pattern and the rules ran.
C6_Witness ==
    /\ pc = "display"
    /\ Unsafe(filtered, 6)
    /\ Contains(clean_code, <<".", "a", "s", "t", "y", "p", "e", "(", "s", "t", "r", ")">>)

\* C7: the final code is the code the chain gives without the two index-0
\* rules, and an index-0 rule followed by its general rule gives what the
\* general rule gives alone.
C7_IndexZeroRulesRedundant ==
    /\ pc = "display" => clean_code = Sub(6, Sub(5, Sub(2, Sub(1, filtered))))
    /\ pc = "fix3" => Sub(5, Sub(3, clean_code)) = Sub(5, clean_code)
    /\ pc = "fix4" => Sub(6, Sub(4, clean_code)) = Sub(6, clean_code)

\* C7's case: index-0 rules rewrote a call of the filtered code.
C7_Witness ==
    /\ pc = "display"
    /\ Sub(4, Sub(3, filtered)) # filtered
    /\ Sub(4, filtered) # filtered

\* parentheses opened and not closed between the "(" at o and position k
Depth(t, o, k) ==
    Cardinality({i \in o..k : t[i] = "("}) - Cardinality({i \in o..k : t[i] = ")"})

\* the ")" that closes the "(" at o (0 when none does)
CloseOf(t, o) ==
    IF \E k \in (o + 1)..Len(t) : Depth(t, o, k) = 0
    THEN CHOOSE k \in (o + 1)..Len(t) :
            Depth(t, o, k) = 0 /\ \A u \in (o + 1)..(k - 1) : Depth(t, o, u) # 0
    ELSE 0

\* what the claim says of a text with one pd.to_datetime call, which opens its
\* parenthesis at o and closes it at p: a call of one argument stays as it
\* is; a call (arg, format=fmt) becomes the guarded call on arg, with the
\* text before and after the call untouched
DatetimeRewriteAsClaimed(t, out, o, p) ==
    LET commas == {k \in (o + 1)..(p - 1) : t[k] = "," /\ Depth(t, o, k) = 1}
        c == CHOOSE k \in commas : TRUE
    IN  /\ commas = {} => out = t
        /\ ( /\ Cardinality(commas) = 1
             /\ c > o + 1
             /\ StartsAt(t, SkipIn(t, c + 1, Space), <<"f", "o", "r", "m", "a", "t", "=">>) )
           => out = SubSeq(t, 1, o) \o SubSeq(t, o + 1, c - 1)
                    \o <<".", "a", "s", "t", "y", "p", "e", "(", "s", "t", "r", ")", ".", "s", "t", "r", ".", "s", "t", "r", "i", "p", "(", ")", ",", " ", "e", "r", "r", "o", "r", "s", "=", "'", "c", "o", "e", "r", "c", "e", "'", ")">>
                    \o SubSeq(t, p + 1, Len(t))

\* C8: the to_datetime rule turns the call pd.to_datetime(arg, format=fmt)
\* into pd.to_datetime(arg.astype(str).str.strip(), errors='coerce') with the
\* arg of that call, and changes nothing before or after the call.
C8_DatetimeRewriteFrame ==
    pc = "fix2" =>
        LET lit == <<"p", "d", ".", "t", "o", "_", "d", "a", "t", "e", "t", "i", "m", "e", "(">>
            occ == {s \in 1..Len(filtered) : StartsAt(filtered, s, lit)}
            o == (CHOOSE s \in occ : TRUE) + Len(lit) - 1
            p == CloseOf(filtered, o)
        IN  (Cardinality(occ) = 1 /\ p # 0)
                => DatetimeRewriteAsClaimed(filtered, clean_code, o, p)

FullOrder ==
    <<"generate", "strip", "filter", "dedent", "fix1", "fix2", "fix3", "fix4",
      "fix5", "fix6", "display", "exec", "updated", "download">>

IsPrefix(a, b) == Len(a) <= Len(b) /\ SubSeq(b, 1, Len(a)) = a

\* C9: the steps of a run follow the fixed order, the text executed is the
\* text displayed, Updated Data and the download button appear only after an
\* execution that did not raise, and a failed execution ends the run.
C9_LinearFlow ==
    /\ IsPrefix(steps, FullOrder)
    /\ Done("exec") => executed = displayed
    /\ (Shown("Updated Data") \/ Shown("Download Cleaned CSV"))
            => (Done("exec") /\ exc = NoExc)
    /\ exc # NoExc =>
            /\ pc = "idle"
            /\ steps[Len(steps)] = "exec"
            /\ ~Shown("Updated Data")
            /\ ~Shown("Download Cleaned CSV")

\* C9's case: an execution has failed and the run has ended on it.
C9_Witness ==
    /\ exc # NoExc
    /\ Shown("error")
    /\ executed # <<>>

RECURSIVE InPlaceOnly(_, _)
\* the table after the statements that act on it in place: those before the
\* first rebinding of df and before the first statement that raises
InPlaceOnly(tbl, p) ==
    IF p = <<>> THEN tbl
    ELSE LET st == Head(p)
             present == \E e \in tbl : e[1] = st.col
             without == {e \in tbl : e[1] # st.col}
         IN  CASE st.op \in {"rebind", "junk"} -> tbl
               [] st.op = "assign" ->
                    InPlaceOnly(without \cup {<<st.col, "number">>}, Tail(p))
               [] st.op = "upper" ->
                    IF present
                    THEN InPlaceOnly(without \cup {<<st.col, "text">>}, Tail(p))
                    ELSE tbl
               [] st.op = "strip" ->
                    IF <<st.col, "text">> \in tbl
                    THEN InPlaceOnly(tbl, Tail(p)) ELSE tbl

\* C10: the session always holds the object the upload created, and after
\* an Apply that object shows the in-place changes of the generated code and
\* nothing of what the code did after rebinding df.
C10_RebindingKeepsSessionTable ==
    /\ session_df # 0 => session_df = loaded
    /\ Done("exec") => heap[session_df] = InPlaceOnly(before, prog)

\* C10's case: generated code that rebinds df has run to its end.
C10_Witness ==
    /\ pc = "updated"
    /\ \E i \in 1..Len(prog) :
        /\ prog[i].op = "rebind"
        /\ i < Len(prog)
        /\ prog[i + 1].op = "assign"

=============================================================================
